---------------------------- MODULE Spec2Model ----------------------------
(***************************************************************************)
(* A model of the QMC5883L compass driver (QMC5883L.py, class Compass):    *)
(* two's-complement decoding of the axis registers, the data-ready gate    *)
(* of get_axes, the heading arithmetic of get_heading and the calibration  *)
(* run of calibrate_xyraw.                                                 *)
(*                                                                         *)
(* Numbers.  Python floats are modelled in fixed point.                    *)
(*   - Field values (axes, offsets, adjustments) are integers counting     *)
(*     1/200 of a field unit, so scale = 4.35 is 870 and the halving in    *)
(*     (max + min) / 2 stays exact.                                        *)
(*   - Angles are integers counting 1/10 of an arc minute, so math.pi is   *)
(*     108000, a degree is 600 and a full turn is 216000.                  *)
(* A Python value that may be None is a sequence: None is <<>> and the     *)
(* number n is <<n>>.                                                      *)
(***************************************************************************)
EXTENDS Integers, Sequences, FiniteSets, TLC

(***************************************************************************)
(* Class constants                                                         *)
(***************************************************************************)
X_REGS == <<0, 1>>
Y_REGS == <<2, 3>>
Z_REGS == <<4, 5>>
DATA_STATE_REG == 6
\* scale = 4.35, in 1/200 field units per raw count
scale == 870
\* math.pi, in tenths of an arc minute
PI == 108000

\* The loop bound of the calibration run.  The class sets 500; the model
\* runs the same loop over MaxSteps iterations (the repository's test sets
\* the attribute to 1).
MaxSteps == 3
CALIBRATION_STEPS == MaxSteps

(***************************************************************************)
(* Python values                                                           *)
(***************************************************************************)
None == <<>>
Num(n) == <<n>>
IsNone(v) == v = <<>>
Val(v) == v[1]

Return(v) == [kind |-> "return", value |-> v]
Raise(e) == [kind |-> "raise", value |-> e]
NoResult == [kind |-> "none", value |-> <<>>]

Abs(n) == IF n < 0 THEN -n ELSE n

RECURSIVE GCD(_, _)
GCD(a, b) == IF b = 0 THEN a ELSE GCD(b, a % b)

(***************************************************************************)
(* Inputs: what the device presents in its registers 0..6 at a call.       *)
(***************************************************************************)
Regs == 0..6
Byte == 0..255

\* (low, high) byte pairs of the three axes: raw counts 0, 1, -1 for x,
\* 0 and 2 for y, 3 and -32768 for z.
XBytes == {<<0, 0>>, <<1, 0>>, <<255, 255>>}
YBytes == {<<0, 0>>, <<2, 0>>}
ZBytes == {<<3, 0>>, <<0, 128>>}
\* status bytes: nothing set, data ready, overflow without data ready
StatusBytes == {0, 1, 2}

MkBus(x, y, z, s) ==
    [r \in Regs |-> CASE r = 0 -> x[1] [] r = 1 -> x[2]
                      [] r = 2 -> y[1] [] r = 3 -> y[2]
                      [] r = 4 -> z[1] [] r = 5 -> z[2]
                      [] OTHER -> s]

BusStates == {MkBus(x, y, z, s) : x \in XBytes, y \in YBytes, z \in ZBytes, s \in StatusBytes}

\* Constructor arguments (x_offset, y_offset), multiples of the scale, and
\* declination (radians: 0, and the 597 units of 0.995 degrees).
OffsetArgs == {<<0, 0>>, <<870, 870>>}
DeclinationArgs == {0, 597}
\* Arguments of set_declination, in degrees.  On these inputs the exact
\* arithmetic of the model and Python's floats give the same heading.
DegreeArgs == {180, -90, 765}

VARIABLES
    bus,                        \* registers 0..6 as the device presents them
    x_calibration_offset,       \* self.x_calibration_offset
    y_calibration_offset,       \* self.y_calibration_offset
    declination,                \* self.declination
    x_axis, y_axis, z_axis,     \* self.x_axis, self.y_axis, self.z_axis
    x_calibration_adjustment,   \* self.x_calibration_adjustment
    y_calibration_adjustment,   \* self.y_calibration_adjustment
    op,                         \* the method called last
    result,                     \* what that call returned or raised
    reads,                      \* register addresses read during that call, in order
    axes,                       \* what get_axes returned during that call (last)
    headingRad,                 \* get_heading's local headingRad at line 97 of that call
    pc,                         \* "idle", or "calibrating" inside calibrate_xyraw
    x_vals, y_vals, z_vals,     \* calibrate_xyraw's locals
    i,                          \* calibrate_xyraw's loop variable
    calls                       \* get_axes calls made by the method called last

vars == <<bus, x_calibration_offset, y_calibration_offset, declination,
          x_axis, y_axis, z_axis, x_calibration_adjustment,
          y_calibration_adjustment, op, result, reads, axes, headingRad,
          pc, x_vals, y_vals, z_vals, i, calls>>

config == <<x_calibration_offset, y_calibration_offset, declination>>
attrs == <<x_axis, y_axis, z_axis>>
adjustments == <<x_calibration_adjustment, y_calibration_adjustment>>
locals == <<x_vals, y_vals, z_vals, i>>

(***************************************************************************)
(* _read_axis                                                              *)
(***************************************************************************)
\* Variant: the sign correction of lines 60-62 left out.
ReadAxisNoSign(b, axis_regs) == b[axis_regs[2]] * 256 + b[axis_regs[1]]

_read_axis(b, axis_regs) ==
    LET low == b[axis_regs[1]]
        high == b[axis_regs[2]] * 256
        value == high + low
    IN IF value >= 32768 THEN value - 65536 ELSE value

(***************************************************************************)
(* get_axes                                                                *)
(***************************************************************************)
\* Variant: the status byte tested without the & 1.
DataReadyWholeByte(b) == b[DATA_STATE_REG]

data_ready(b) == b[DATA_STATE_REG] % 2

\* Variant: an offset subtracted from z as well.
AxesValuesOffsetOnZ(b) ==
    <<Num(_read_axis(b, X_REGS) * scale - x_calibration_offset),
      Num(_read_axis(b, Y_REGS) * scale - y_calibration_offset),
      Num(_read_axis(b, Z_REGS) * scale - y_calibration_offset)>>

\* Lines 73-77: the three values get_axes computes when data is ready.
AxesValues(b) ==
    <<Num(_read_axis(b, X_REGS) * scale - x_calibration_offset),
      Num(_read_axis(b, Y_REGS) * scale - y_calibration_offset),
      Num(_read_axis(b, Z_REGS) * scale)>>

\* The body of get_axes when the device presents register contents b: the
\* registers it reads, the attributes it sets and the value it returns.
GetAxesBody(b) ==
    IF data_ready(b) # 0
    THEN /\ bus' = b
         /\ reads' = <<DATA_STATE_REG>> \o X_REGS \o Y_REGS \o Z_REGS
         /\ x_axis' = AxesValues(b)[1]
         /\ y_axis' = AxesValues(b)[2]
         /\ z_axis' = AxesValues(b)[3]
         /\ axes' = <<x_axis', y_axis', z_axis'>>
    ELSE /\ bus' = b
         /\ reads' = <<DATA_STATE_REG>>
         /\ UNCHANGED attrs
         /\ axes' = <<None, None, None>>

get_axes(b) ==
    /\ pc = "idle"
    /\ GetAxesBody(b)
    /\ op' = "get_axes"
    /\ calls' = 1
    /\ result' = Return(axes')
    /\ headingRad' = None
    /\ UNCHANGED <<config, adjustments, pc, locals>>

(***************************************************************************)
(* set_declination                                                         *)
(***************************************************************************)
set_declination(degrees) ==
    /\ pc = "idle"
    /\ declination' = degrees * (PI \div 180)
    /\ op' = "set_declination"
    /\ calls' = 0
    /\ result' = Return(None)
    /\ reads' = <<>>
    /\ axes' = <<>>
    /\ headingRad' = None
    /\ UNCHANGED <<bus, x_calibration_offset, y_calibration_offset, attrs,
                   adjustments, pc, locals>>

(***************************************************************************)
(* get_heading                                                             *)
(***************************************************************************)
\* atan of n/d for the reduced fractions 0 <= n/d <= 1 the inputs produce,
\* rounded to the angle unit (math.atan, libm).
Arctan(n, d) ==
    CASE n = 0 /\ d = 1 -> 0
      [] n = 1 /\ d = 1 -> 27000
      [] n = 1 /\ d = 2 -> 15939
      [] n = 1 /\ d = 3 -> 11061
      [] n = 2 /\ d = 3 -> 20214

\* math.atan2(y, x) for numbers, by octant; atan2(0, 0) is 0.
Atan2(y, x) ==
    LET ax == Abs(x)
        ay == Abs(y)
        g == GCD(ax, ay)
        q == IF ay <= ax THEN Arctan(ay \div g, ax \div g)
             ELSE (PI \div 2) - Arctan(ax \div g, ay \div g)
    IN IF x = 0 /\ y = 0 THEN 0
       ELSE IF x >= 0 THEN (IF y >= 0 THEN q ELSE -q)
       ELSE (IF y >= 0 THEN PI - q ELSE q - PI)

\* Lines 88-94: the two wrap corrections.
Wrap(a) ==
    LET a1 == IF a < 0 THEN a + 2 * PI ELSE a
    IN IF a1 > 2 * PI THEN a1 - 2 * PI ELSE a1

\* round(n / d) for n >= 0, d > 0: Python 3 rounds a tie to the even integer.
PyRound(n, d) ==
    LET q == n \div d
        r == n % d
    IN IF 2 * r < d THEN q
       ELSE IF 2 * r > d THEN q + 1
       ELSE IF q % 2 = 0 THEN q ELSE q + 1

\* Lines 96-100: math.degrees, math.floor and round on the wrapped angle.
\* A degree is PI \div 180 angle units, a minute a sixtieth of that.
DegMin(a) ==
    LET unitsPerDeg == PI \div 180
        degrees == a \div unitsPerDeg
        minutes == PyRound((a - degrees * unitsPerDeg) * 60, unitsPerDeg)
    IN <<degrees, minutes>>

\* Variant: absent axis values read as 0 instead of raising.
HeadingTailNoneAsZero(a) ==
    LET y == IF IsNone(a[2]) THEN 0 ELSE Val(a[2])
        x == IF IsNone(a[1]) THEN 0 ELSE Val(a[1])
    IN /\ headingRad' = Num(Wrap(Atan2(y, x) + declination))
       /\ result' = Return(DegMin(Val(headingRad')))

\* Lines 85-100; math.atan2 raises TypeError on None arguments.
HeadingTail(a) ==
    IF IsNone(a[2]) \/ IsNone(a[1])
    THEN /\ result' = Raise("TypeError")
         /\ headingRad' = None
    ELSE /\ headingRad' = Num(Wrap(Atan2(Val(a[2]), Val(a[1])) + declination))
         /\ result' = Return(DegMin(Val(headingRad')))

get_heading(b) ==
    /\ pc = "idle"
    /\ GetAxesBody(b)
    /\ HeadingTail(axes')
    /\ op' = "get_heading"
    /\ calls' = 1
    /\ UNCHANGED <<config, adjustments, pc, locals>>

(***************************************************************************)
(* Specification of the reading and heading operations                     *)
(***************************************************************************)
InitCommon ==
    /\ x_axis = None /\ y_axis = None /\ z_axis = None
    /\ x_calibration_adjustment = None
    /\ y_calibration_adjustment = None
    /\ op = "__init__"
    /\ result = NoResult
    /\ reads = <<>>
    /\ axes = <<>>
    /\ headingRad = None
    /\ pc = "idle"
    /\ x_vals = <<>> /\ y_vals = <<>> /\ z_vals = <<>>
    /\ i = 0
    /\ calls = 0

Init ==
    /\ bus = [r \in Regs |-> 0]
    /\ \E o \in OffsetArgs : x_calibration_offset = o[1] /\ y_calibration_offset = o[2]
    /\ declination \in DeclinationArgs
    /\ InitCommon

Next ==
    \/ \E b \in BusStates : get_axes(b)
    \/ \E b \in BusStates : get_heading(b)
    \/ \E d \in DegreeArgs : set_declination(d)

Spec == Init /\ [][Next]_vars

(***************************************************************************)
(* _read_axis on its own, over every pair of bytes                         *)
(***************************************************************************)
read_axis_call ==
    /\ pc = "idle"
    /\ op' = "_read_axis"
    /\ reads' = X_REGS
    /\ result' = Return(Num(_read_axis(bus, X_REGS)))
    /\ calls' = 0
    /\ UNCHANGED <<bus, config, attrs, adjustments, axes, headingRad, pc, locals>>

InitDecode ==
    /\ \E low \in Byte, high \in Byte : bus = MkBus(<<low, high>>, <<0, 0>>, <<0, 0>>, 0)
    /\ x_calibration_offset = 0
    /\ y_calibration_offset = 0
    /\ declination = 0
    /\ InitCommon

NextDecode == read_axis_call

SpecDecode == InitDecode /\ [][NextDecode]_vars

(***************************************************************************)
(* calibrate_xyraw                                                         *)
(***************************************************************************)
\* max(vals) and min(vals) as Python folds them from the first element.
\* Comparing None with a number (or with None) raises TypeError; the sum of
\* line 117 raises it for a list that is [None].
HasNone(vals) == \E k \in 1..Len(vals) : IsNone(vals[k])

RECURSIVE MaxFrom(_, _, _)
MaxFrom(vals, k, best) ==
    IF k > Len(vals) THEN best
    ELSE MaxFrom(vals, k + 1, IF Val(vals[k]) > best THEN Val(vals[k]) ELSE best)

RECURSIVE MinFrom(_, _, _)
MinFrom(vals, k, best) ==
    IF k > Len(vals) THEN best
    ELSE MinFrom(vals, k + 1, IF Val(vals[k]) < best THEN Val(vals[k]) ELSE best)

PyMax(vals) == MaxFrom(vals, 2, Val(vals[1]))
PyMin(vals) == MinFrom(vals, 2, Val(vals[1]))

\* Lines 117-118, (max(vals) + min(vals)) / 2: the samples of a run share one offset and
\* are multiples of the scale before it is subtracted, so the sum is even
\* in 1/200 units and the division exact.

\* Variant: the maximum taken for the midpoint.
MidpointOfMax(vals) == PyMax(vals)

Midpoint(vals) == (PyMax(vals) + PyMin(vals)) \div 2

Deviation(vals) == PyMax(vals) - PyMin(vals)

\* Lines 104-106: entry.
calibrate_start ==
    /\ pc = "idle"
    /\ pc' = "calibrating"
    /\ x_vals' = <<>> /\ y_vals' = <<>> /\ z_vals' = <<>>
    /\ i' = 0
    /\ op' = "calibrate_xyraw"
    /\ calls' = 0
    /\ result' = NoResult
    /\ reads' = <<>>
    /\ axes' = <<>>
    /\ headingRad' = None
    /\ UNCHANGED <<bus, config, attrs, adjustments>>

\* Variant: a sample that is not ready is read again instead of recorded.
CalibrateSampleSkipNotReady(b) ==
    /\ pc = "calibrating"
    /\ i < CALIBRATION_STEPS
    /\ GetAxesBody(b)
    /\ IF IsNone(axes'[1])
       THEN UNCHANGED locals
       ELSE /\ x_vals' = Append(x_vals, axes'[1])
            /\ y_vals' = Append(y_vals, axes'[2])
            /\ z_vals' = Append(z_vals, axes'[3])
            /\ i' = i + 1
    /\ calls' = calls + 1
    /\ UNCHANGED <<config, adjustments, op, result, headingRad, pc>>

\* Lines 109-114: one iteration of the loop; i counts the iterations made.
calibrate_sample(b) ==
    /\ pc = "calibrating"
    /\ i < CALIBRATION_STEPS
    /\ GetAxesBody(b)
    /\ x_vals' = Append(x_vals, axes'[1])
    /\ y_vals' = Append(y_vals, axes'[2])
    /\ z_vals' = Append(z_vals, axes'[3])
    /\ i' = i + 1
    /\ calls' = calls + 1
    /\ UNCHANGED <<config, adjustments, op, result, headingRad, pc>>

\* Lines 116-136 with write_to_file = False: the adjustments, the update of
\* the instance and the return; the locals end with the call.
calibrate_finish ==
    /\ pc = "calibrating"
    /\ i = CALIBRATION_STEPS
    /\ IF HasNone(x_vals) \/ HasNone(y_vals) \/ HasNone(z_vals)
       THEN /\ result' = Raise("TypeError")
            /\ UNCHANGED adjustments
       ELSE /\ x_calibration_adjustment' = Num(Midpoint(x_vals))
            /\ y_calibration_adjustment' = Num(Midpoint(y_vals))
            /\ result' = Return(<<Midpoint(x_vals), Midpoint(y_vals),
                                  Deviation(z_vals), x_vals, y_vals>>)
    /\ pc' = "idle"
    /\ x_vals' = <<>> /\ y_vals' = <<>> /\ z_vals' = <<>>
    /\ i' = 0
    /\ UNCHANGED <<bus, config, attrs, op, reads, axes, headingRad, calls>>

InitCal ==
    /\ bus = [r \in Regs |-> 0]
    /\ \E o \in OffsetArgs : x_calibration_offset = o[1] /\ y_calibration_offset = o[2]
    /\ declination = 0
    /\ InitCommon

NextCal ==
    \/ calibrate_start
    \/ \E b \in BusStates : calibrate_sample(b)
    \/ calibrate_finish
    \/ \E b \in BusStates : get_axes(b)

SpecCal == InitCal /\ [][NextCal]_vars

(***************************************************************************)
(* Properties                                                              *)
(***************************************************************************)
\* Bitwise or of two naturals, bit by bit.
RECURSIVE BitOr(_, _)
BitOr(a, b) ==
    IF a = 0 THEN b
    ELSE IF b = 0 THEN a
    ELSE (IF a % 2 = 1 \/ b % 2 = 1 THEN 1 ELSE 0) + 2 * BitOr(a \div 2, b \div 2)

\* The signed 16-bit value of the byte pair (low, high).
TwosComplement(low, high) ==
    LET v == BitOr(high * 256, low)
    IN IF v < 32768 THEN v ELSE v - 65536

Ready(b) == b[DATA_STATE_REG] % 2 = 1

\* C1: for every byte pair (low, high), _read_axis returns (high<<8 | low)
\* when that is < 32768 and that minus 65536 otherwise, a value in
\* [-32768, 32767].
C1_ReadAxisTwosComplement ==
    op = "_read_axis" =>
        /\ result = Return(Num(TwosComplement(bus[0], bus[1])))
        /\ Val(result.value) \in -32768..32767

C1_Witness ==
    /\ op = "_read_axis"
    /\ bus[1] = 128 /\ bus[0] = 0
    /\ result = Return(Num(-32768))

\* C2: when bit 0 of the status register is 0, get_axes returns
\* (None, None, None) and reads the status register only; registers 0..5 are
\* read only in calls that found bit 0 set.
C2_NotReadyReadsStatusOnly ==
    /\ (op = "get_axes" /\ ~Ready(bus)) =>
           /\ result = Return(<<None, None, None>>)
           /\ reads = <<DATA_STATE_REG>>
    /\ (\E k \in 1..Len(reads) : reads[k] \in 0..5) => Ready(bus)

C2_Witness ==
    /\ op = "get_axes"
    /\ bus[DATA_STATE_REG] = 2
    /\ bus[0] = 255
    /\ reads = <<DATA_STATE_REG>>

\* C3: when bit 0 of the status register is 1, get_axes returns
\* (dx*scale - x_offset, dy*scale - y_offset, dz*scale) for the
\* two's-complement values dx, dy, dz of register pairs (0,1), (2,3), (4,5).
C3_ReadyAxesValues ==
    (op = "get_axes" /\ Ready(bus)) =>
        result = Return(<<Num(TwosComplement(bus[0], bus[1]) * scale - x_calibration_offset),
                          Num(TwosComplement(bus[2], bus[3]) * scale - y_calibration_offset),
                          Num(TwosComplement(bus[4], bus[5]) * scale)>>)

C3_Witness ==
    /\ op = "get_axes"
    /\ Ready(bus)
    /\ y_calibration_offset # 0
    /\ bus[1] = 255
    /\ bus[5] = 128
    /\ result.value[3] = Num(-32768 * scale)

\* C4: after a calibration run that returned (xOffset, yOffset, ...), the
\* offsets get_axes subtracts from x and y are xOffset and yOffset.
\* (x_calibration_adjustment holds the xOffset of the last run that
\* returned.)
C4_CalibrationSetsOffsets ==
    ~IsNone(x_calibration_adjustment) =>
        /\ x_calibration_offset = Val(x_calibration_adjustment)
        /\ y_calibration_offset = Val(y_calibration_adjustment)

\* The largest and the smallest of a sequence of numbers.
IsMaxOf(m, vals) ==
    /\ \E k \in 1..Len(vals) : Val(vals[k]) = m
    /\ \A k \in 1..Len(vals) : Val(vals[k]) <= m

IsMinOf(m, vals) ==
    /\ \E k \in 1..Len(vals) : Val(vals[k]) = m
    /\ \A k \in 1..Len(vals) : Val(vals[k]) >= m

AllPresent(vals) == \A k \in 1..Len(vals) : vals[k] # None

\* A step of the sampling loop, and the step that ends the run.
SampleStep == pc = "calibrating" /\ pc' = "calibrating"
FinishStep == pc = "calibrating" /\ pc' = "idle"

\* Each ready sample is appended to the lists as it is read.
C5_SampleInOrder ==
    (SampleStep /\ Ready(bus')) =>
        /\ x_vals' = Append(x_vals, Num(TwosComplement(bus'[0], bus'[1]) * scale
                                         - x_calibration_offset))
        /\ y_vals' = Append(y_vals, Num(TwosComplement(bus'[2], bus'[3]) * scale
                                         - y_calibration_offset))
        /\ z_vals' = Append(z_vals, Num(TwosComplement(bus'[4], bus'[5]) * scale))

\* What a run whose samples were all ready returns.
C5_Returned ==
    (FinishStep /\ AllPresent(x_vals) /\ AllPresent(y_vals) /\ AllPresent(z_vals)) =>
        /\ calls' = CALIBRATION_STEPS
        /\ result'.kind = "return"
        /\ Len(result'.value) = 5
        /\ result'.value[4] = x_vals /\ Len(x_vals) = CALIBRATION_STEPS
        /\ result'.value[5] = y_vals /\ Len(y_vals) = CALIBRATION_STEPS
        /\ \E mx, mn \in {Val(x_vals[k]) : k \in 1..Len(x_vals)} :
               /\ IsMaxOf(mx, x_vals) /\ IsMinOf(mn, x_vals)
               /\ 2 * result'.value[1] = mx + mn
        /\ \E mx, mn \in {Val(y_vals[k]) : k \in 1..Len(y_vals)} :
               /\ IsMaxOf(mx, y_vals) /\ IsMinOf(mn, y_vals)
               /\ 2 * result'.value[2] = mx + mn
        /\ \E mx, mn \in {Val(z_vals[k]) : k \in 1..Len(z_vals)} :
               /\ IsMaxOf(mx, z_vals) /\ IsMinOf(mn, z_vals)
               /\ result'.value[3] = mx - mn

\* C5: when every sample is ready, calibrate_xyraw calls get_axes exactly
\* CALIBRATION_STEPS times and returns (xOffset, yOffset, zDeviation,
\* xSamples, ySamples): the sample lists hold CALIBRATION_STEPS entries in
\* read order, xOffset and yOffset are (max + min) / 2 of their lists and
\* zDeviation is max - min of the z samples.
C5_CalibrationResult == [][C5_SampleInOrder /\ C5_Returned]_vars

C5_Witness ==
    /\ op = "calibrate_xyraw"
    /\ pc = "idle"
    /\ result.kind = "return"
    /\ calls = CALIBRATION_STEPS
    /\ result.value[4][1] # result.value[4][2]
    /\ result.value[1] # Val(result.value[4][1])
    /\ result.value[3] > 0

\* C6: every heading get_heading returns has degrees in [0, 360) and
\* minutes in [0, 60).
C6_HeadingInRange ==
    (op = "get_heading" /\ result.kind = "return") =>
        /\ result.value[1] \in 0..359
        /\ result.value[2] \in 0..59

\* C7: with angle = atan2(y, x) + declination, get_heading reduces an angle
\* >= 2*pi by exactly one full turn, increases an angle < 0 by exactly one
\* full turn and leaves an angle in [0, 2*pi) unchanged.
C7_WrapOneTurn ==
    (op = "get_heading" /\ result.kind = "return") =>
        LET angle == Atan2(Val(axes[2]), Val(axes[1])) + declination
        IN Val(headingRad) = (IF angle >= 2 * PI THEN angle - 2 * PI
                              ELSE IF angle < 0 THEN angle + 2 * PI
                              ELSE angle)

\* C8: when the calibrated sample has x = 0 and y = 0, get_heading does not
\* return an ordinary (degrees, minutes) heading.
C8_DegenerateNotReturned ==
    ~ /\ op = "get_heading"
      /\ result.kind = "return"
      /\ axes[1] = Num(0)
      /\ axes[2] = Num(0)

\* A sample that is not ready is appended to the lists as None.
C9_Recorded ==
    (SampleStep /\ ~Ready(bus')) =>
        /\ i' = i + 1
        /\ x_vals' = Append(x_vals, None)
        /\ y_vals' = Append(y_vals, None)
        /\ z_vals' = Append(z_vals, None)

\* C9 as stated: a sample that is not ready during calibrate_xyraw is
\* recorded as None (neither skipped nor retried), the lists still reach
\* CALIBRATION_STEPS entries, and the run goes through the min/max
\* computation without signalling an error.
C9_NoErrorSignalled ==
    [][/\ C9_Recorded
       /\ (FinishStep /\ ~AllPresent(x_vals)) =>
              /\ Len(x_vals) = CALIBRATION_STEPS
              /\ Len(y_vals) = CALIBRATION_STEPS
              /\ result'.kind = "return"]_vars

\* C9 as amended: a sample that is not ready during calibrate_xyraw is
\* recorded as None (neither skipped nor retried) and the lists still reach
\* CALIBRATION_STEPS entries; the min/max computation over them then raises
\* TypeError, so the run returns nothing and leaves the instance's offsets
\* and adjustments as they were.
C9_RecordedThenTypeError ==
    [][/\ C9_Recorded
       /\ (FinishStep /\ ~AllPresent(x_vals)) =>
              /\ Len(x_vals) = CALIBRATION_STEPS
              /\ Len(y_vals) = CALIBRATION_STEPS
              /\ result'.kind = "raise"
              /\ result'.value = "TypeError"
              /\ UNCHANGED <<config, adjustments>>]_vars

C9_Witness ==
    /\ op = "calibrate_xyraw"
    /\ pc = "idle"
    /\ result.kind = "raise"
    /\ calls = CALIBRATION_STEPS
    /\ ~Ready(bus)

\* C10: get_heading returns a (degrees, minutes) pair only in calls that
\* found the data-ready bit set; when the bit is 0 it reads the status
\* register only, computes no heading, ends in an error and leaves the
\* offsets and the declination unchanged.
C10_HeadingNeedsReadyData ==
    [][op' = "get_heading" =>
          /\ ~Ready(bus') =>
                 /\ reads' = <<DATA_STATE_REG>>
                 /\ headingRad' = None
                 /\ result'.kind = "raise"
                 /\ UNCHANGED <<config, attrs, adjustments>>
          /\ result'.kind = "return" => Ready(bus')]_vars

C10_Witness ==
    /\ op = "get_heading"
    /\ bus[DATA_STATE_REG] = 2
    /\ result.kind = "raise"
    /\ ~IsNone(x_axis)

=============================================================================
